---------------------------- MODULE Spec2Model ----------------------------
(***************************************************************************)
(* A model of the trace pipeline of trace-Lora:                            *)
(*   transform4.py            span tree -> dependency graph -> edge lines  *)
(*   trace_evol.py            parse_trace_and_stats (training records)     *)
(*   build_balanced_testset.py parse_trace_and_stats (prediction records)  *)
(* Four specifications share the module: SpecGraph (graph builder and      *)
(* serializer), SpecParse (annotator on short texts with every line        *)
(* shape), SpecStats (annotator on long canonical texts, for the           *)
(* percentile) and SpecBatch (the three batch drivers).                    *)
(***************************************************************************)
EXTENDS Integers, Sequences, FiniteSets, TLC

VARIABLES
    pc,        \* control location of the pipeline being run
    spans,     \* transform4: the flattened span list handed to build_dependency_graph
    nodes,     \* transform4: graph.nodes, in insertion order
    edges,     \* transform4: the graph's edges, in insertion order
    sequence,  \* transform4: the records generate_sequence returned
    txt,       \* annotator: the input text, a sequence of lines
    impl,      \* annotator: which parse_trace_and_stats ran ("evol" / "balanced")
    res,       \* annotator: result of the first application
    res2,      \* annotator: result of applying it again to the cooked text
    driver,    \* batch: which main() runs
    batch,     \* batch: the items; TRUE = processing this item raises
    cursor,    \* batch: index of the next item of the loop
    recs,      \* batch: indexes of the items collected in memory (recs / all_samples)
    emitted,   \* batch: indexes of the items whose output was written out
    partial    \* batch: indexes of the items whose output file was left half-written

vars == <<pc, spans, nodes, edges, sequence, txt, impl, res, res2,
          driver, batch, cursor, recs, emitted, partial>>

graphVars == <<spans, nodes, edges, sequence>>
parseVars == <<txt, impl, res, res2>>
batchVars == <<driver, batch, cursor, recs, emitted, partial>>

\* ------------------------------------------------------------------ bounds

\* Longest span list handed to build_dependency_graph.
MaxSpans == 3

\* ------------------------------------------------------- general helpers

Range(s) == {s[i] : i \in DOMAIN s}

\* ================================================================ transform4

\* Span identifiers by position in the list (unique, as the caller must
\* guarantee). AbsentId never names a span of the list.
SpanIdOf == <<"s1", "s2", "s3", "s4", "s5", "s6">>
AbsentId == "s9"
\* Span.parent_span_id = None
NoParent == "None"
\* Span.service_name by position: one distinct service per span.
ServiceOf == <<"svcA", "svcB", "svcC", "svcD", "svcE", "svcF">>
\* Span.start_time, in seconds: gaps of 0, 1, 2 and 3 s occur.
StartTimes == {0, 1, 3}
\* "if 0 < time_gap <= 2": the temporal adjacency threshold, in seconds.
TimeGapMax == 2

\* extract_spans flattens the tree in pre-order, so the declared parent of the
\* i-th span is an earlier span of the list, None, or a span that is not in it.
ParentChoices(i) == {NoParent, AbsentId} \cup {SpanIdOf[j] : j \in 1..(i - 1)}

\* The Span dataclass, restricted to the fields the builder and format_edge read.
Span(i, p, t) ==
    [span_id |-> SpanIdOf[i], parent_span_id |-> p, start_time |-> t,
     service_name |-> ServiceOf[i]]

RECURSIVE SpanLists(_)
\* Every span list of length n: the i-th span has the i-th identifier.
SpanLists(n) ==
    IF n = 0 THEN {<<>>}
    ELSE {Append(q, Span(n, p, t)) : q \in SpanLists(n - 1), p \in ParentChoices(n), t \in StartTimes}

\* nx.DiGraph.add_edge(u, v, type=t): a DiGraph holds one edge per ordered
\* pair; adding an existing pair updates its attribute in place.
AddEdge(es, u, v, t) ==
    IF \E i \in DOMAIN es : es[i].u = u /\ es[i].v = v
    THEN [i \in DOMAIN es |-> IF es[i].u = u /\ es[i].v = v
                              THEN [es[i] EXCEPT !.type = t] ELSE es[i]]
    ELSE Append(es, [u |-> u, v |-> v, type |-> t])

RECURSIVE AddParentEdges(_, _, _, _)
\* "for span in spans: if span.parent_span_id and span.parent_span_id in graph.nodes"
AddParentEdges(sp, ns, es, i) ==
    IF i > Len(sp) THEN es
    ELSE LET s == sp[i]
             hit == s.parent_span_id # NoParent /\ s.parent_span_id \in Range(ns)
         IN  AddParentEdges(sp, ns,
                 IF hit THEN AddEdge(es, s.parent_span_id, s.span_id, "parent") ELSE es,
                 i + 1)

RECURSIVE InsertByStart(_, _)
\* Insert s after every element whose start_time is <= its own (stable).
InsertByStart(sorted, s) ==
    IF sorted = <<>> THEN <<s>>
    ELSE IF Head(sorted).start_time <= s.start_time
         THEN <<Head(sorted)>> \o InsertByStart(Tail(sorted), s)
         ELSE <<s>> \o sorted

RECURSIVE SortedByStart(_)
\* sorted(spans, key=lambda s: s.start_time)
SortedByStart(sp) ==
    IF sp = <<>> THEN <<>>
    ELSE InsertByStart(SortedByStart(SubSeq(sp, 1, Len(sp) - 1)), sp[Len(sp)])

RECURSIVE AddTimeEdges(_, _, _)
\* "for i in range(len(sorted_spans) - 1): ... if 0 < time_gap <= 2"
AddTimeEdges(ss, es, i) ==
    IF i >= Len(ss) THEN es
    ELSE LET gap == ss[i + 1].start_time - ss[i].start_time
         IN  AddTimeEdges(ss,
                 IF 0 < gap /\ gap <= TimeGapMax
                 THEN AddEdge(es, ss[i].span_id, ss[i + 1].span_id, "time") ELSE es,
                 i + 1)

\* graph.add_node(span.span_id, span=span) for every span
GraphNodes(sp) == [i \in DOMAIN sp |-> sp[i].span_id]

\* build_dependency_graph: the edges of the returned graph
GraphEdges(sp) ==
    AddTimeEdges(SortedByStart(sp), AddParentEdges(sp, GraphNodes(sp), <<>>, 1), 1)

\* graph.nodes[node_id]['span']
SpanOf(sp, id) == sp[CHOOSE i \in DOMAIN sp : sp[i].span_id = id]

\* list(graph.predecessors(node_id)): sources of the edges into the node,
\* in the order the edges were inserted
Predecessors(es, id) ==
    LET into == SelectSeq(es, LAMBDA e : e.v = id)
    IN  [i \in DOMAIN into |-> into[i].u]

\* list(graph.neighbors(node_id))
Successors(es, id) ==
    LET outof == SelectSeq(es, LAMBDA e : e.u = id)
    IN  [i \in DOMAIN outof |-> outof[i].v]

InDegree(es, id) == Len(Predecessors(es, id))

RECURSIVE Relax(_, _, _)
\* One generation of nx.topological_generations: every child of the
\* generation loses one in-degree per edge; those reaching 0 form the next.
\* work = the children still to visit, in order, one entry per edge.
Relax(work, indeg, nextGen) ==
    IF work = <<>> THEN [indeg |-> indeg, next |-> nextGen]
    ELSE LET c == Head(work)
             d == indeg[c] - 1
         IN  Relax(Tail(work), [indeg EXCEPT ![c] = d],
                   IF d = 0 THEN Append(nextGen, c) ELSE nextGen)

RECURSIVE Flatten(_)
Flatten(ss) == IF ss = <<>> THEN <<>> ELSE Head(ss) \o Flatten(Tail(ss))

RECURSIVE Generations(_, _, _, _)
\* nx.topological_generations, flattened as nx.topological_sort does
Generations(es, gen, indeg, acc) ==
    IF gen = <<>> THEN [order |-> acc, indeg |-> indeg]
    ELSE LET work == Flatten([i \in DOMAIN gen |-> Successors(es, gen[i])])
             r == Relax(work, indeg, <<>>)
         IN  Generations(es, r.next, r.indeg, acc \o gen)

\* list(nx.topological_sort(graph)): the order, and whether NetworkXUnfeasible
\* was raised (some node kept a positive in-degree: the graph has a cycle).
\* The order among the nodes of an acyclic graph is that of networkx's
\* generation algorithm; the exception does not depend on the version.
TopologicalSort(ns, es) ==
    LET indeg0 == [id \in Range(ns) |-> InDegree(es, id)]
        zero == SelectSeq(ns, LAMBDA id : indeg0[id] = 0)
        g == Generations(es, zero, indeg0, <<>>)
    IN  [order |-> g.order,
         unfeasible |-> \E id \in Range(ns) : g.indeg[id] > 0]

\* A serializer without the except clause: the exception escapes.
OrderedNodesNoFallback(ns, es) ==
    LET t == TopologicalSort(ns, es)
    IN  [raised |-> t.unfeasible, order |-> t.order]

\* "try: ordered_nodes = list(nx.topological_sort(graph))
\*  except nx.NetworkXUnfeasible: ordered_nodes = list(graph.nodes)"
\* raised: whether an exception leaves the try statement.
OrderedNodes(ns, es) ==
    LET t == TopologicalSort(ns, es)
    IN  [raised |-> FALSE, order |-> IF t.unfeasible THEN ns ELSE t.order]

\* "parent_span = graph.nodes[parent_node[0]]['span'] if parent_node else None"
ParentSpan(sp, es, id) ==
    LET parent_node == Predecessors(es, id)
    IN  IF parent_node # <<>> THEN <<SpanOf(sp, parent_node[1])>> ELSE <<>>

\* format_edge: the Edge ID, Source and Destination fields of the record.
\* parent_span is <<span>>, or <<>> for None.
FormatEdge(span, parent_span) ==
    [edge_id |-> span.span_id,
     source |-> IF parent_span # <<>> THEN parent_span[1].service_name ELSE "Client",
     destination |-> span.service_name]

\* generate_sequence: the returned list, or raised = TRUE when it raises
GenerateSequence(sp, ns, es) ==
    LET o == OrderedNodes(ns, es)
        ordered == o.order
    IN  [raised |-> o.raised,
         lines |-> IF o.raised THEN <<>>
                   ELSE [i \in DOMAIN ordered |->
                           FormatEdge(SpanOf(sp, ordered[i]), ParentSpan(sp, es, ordered[i]))]]

InitIdleGraph == spans = <<>> /\ nodes = <<>> /\ edges = <<>> /\ sequence = <<>>
InitIdleParse == txt = <<>> /\ impl = "none" /\ res = <<>> /\ res2 = <<>>
InitIdleBatch == driver = "none" /\ batch = <<>> /\ cursor = 0 /\ recs = {} /\ emitted = {} /\ partial = {}

InitGraph ==
    /\ pc = "spans"
    /\ spans \in UNION {SpanLists(n) : n \in 0..MaxSpans}
    /\ nodes = <<>> /\ edges = <<>> /\ sequence = <<>>
    /\ InitIdleParse /\ InitIdleBatch

\* dependency_graph = build_dependency_graph(spans)
BuildDependencyGraph ==
    /\ pc = "spans"
    /\ nodes' = GraphNodes(spans)
    /\ edges' = GraphEdges(spans)
    /\ pc' = "graph"
    /\ UNCHANGED <<spans, sequence, parseVars, batchVars>>

\* sequence_lines = generate_sequence(dependency_graph)
GenerateSequenceStep ==
    /\ pc = "graph"
    /\ LET r == GenerateSequence(spans, nodes, edges)
       IN  /\ sequence' = r.lines
           /\ pc' = IF r.raised THEN "raised" ELSE "sequence"
    /\ UNCHANGED <<spans, nodes, edges, parseVars, batchVars>>

NextGraph == BuildDependencyGraph \/ GenerateSequenceStep

SpecGraph == InitGraph /\ [][NextGraph]_vars

\* ------------------------------------------------ transform4: the claims

\* The span has a causal predecessor in the graph: its parent_span_id is
\* not None and identifies a span of the list.
HasParentInGraph(s) ==
    s.parent_span_id # NoParent /\ s.parent_span_id \in Range(GraphNodes(spans))

RECURSIVE ReachSet(_, _)
\* The nodes reachable from S along edges (S included).
ReachSet(es, S) ==
    LET more == S \cup {e.v : e \in {x \in Range(es) : x.u \in S}}
    IN  IF more = S THEN S ELSE ReachSet(es, more)

\* Some node reaches itself along one edge or more.
HasCycle(ns, es) ==
    \E id \in Range(ns) :
        id \in ReachSet(es, {e.v : e \in {x \in Range(es) : x.u = id}})

\* C2: every record generate_sequence emits has Source = the service name of
\* the node's causal predecessor (its parent_span_id's span) when that parent
\* is in the graph, and Source = "Client" when the node is a graph root,
\* whatever time edges point at it.
C2_SourceIsCausalParent ==
    pc = "sequence" =>
        \A i \in DOMAIN sequence :
            LET s == SpanOf(spans, sequence[i].edge_id)
            IN  sequence[i].source =
                    IF HasParentInGraph(s)
                    THEN SpanOf(spans, s.parent_span_id).service_name
                    ELSE "Client"

\* C3: after build_dependency_graph, every span whose parent is in the list
\* has exactly one incoming edge of type 'parent', and it comes from that
\* parent, also when a time edge joins the same pair.
C3_OneIncomingParentEdge ==
    pc \in {"graph", "sequence"} =>
        \A i \in DOMAIN spans :
            HasParentInGraph(spans[i]) =>
                LET into == {j \in DOMAIN edges :
                                edges[j].v = spans[i].span_id /\ edges[j].type = "parent"}
                IN  /\ Cardinality(into) = 1
                    /\ \A j \in into : edges[j].u = spans[i].parent_span_id

\* C4: generate_sequence never raises and returns exactly one record per
\* graph node (each node once, none missing); when the graph has a cycle the
\* records are in node insertion order.
C4_SequenceCoversNodes ==
    /\ pc # "raised"
    /\ pc = "sequence" =>
        /\ Len(sequence) = Len(nodes)
        /\ \A n \in DOMAIN nodes :
              Cardinality({i \in DOMAIN sequence : sequence[i].edge_id = nodes[n]}) = 1
        /\ HasCycle(nodes, edges) =>
              \A i \in DOMAIN sequence : sequence[i].edge_id = nodes[i]

\* C4 witness: a parent edge A->B and a time edge B->A (the child starts
\* before its parent) close a cycle, and the sequence was generated.
C4_Witness ==
    /\ pc = "sequence"
    /\ Len(nodes) >= 2
    /\ \E a, b \in DOMAIN edges :
          /\ edges[a].type = "parent" /\ edges[b].type = "time"
          /\ edges[a].u = edges[b].v /\ edges[a].v = edges[b].u
    /\ Len(sequence) = Len(nodes)

\* ============================================= parse_trace_and_stats
\* A line is a sequence of lexemes [t, n]: t is the lexeme's text, and for a
\* run of decimal digits t = "num" and n is int() of the digits. A text is
\* the sequence of its lines (txt.splitlines()).

Tok(t) == [t |-> t, n |-> 0]
Num(n) == [t |-> "num", n |-> n]
LB == Tok("[")
RB == Tok("]")
DOT == Tok(".")
SP == Tok(" ")
TAB == Tok("\t")

\* str.isspace() lexemes: what rstrip()/strip() remove and \s matches
IsWs(tok) == tok.t \in {" ", "\t"}

\* Lexemes the pattern's "starts\s+at" / "finishes\s+at" match under re.IGNORECASE
StartPhrases == {"starts at", "Starts At", "starts  at"}
FinishPhrases == {"finishes at", "FINISHES AT", "finishes  at"}
\* Lexemes "ms" matches under re.IGNORECASE
MsLexemes == {"ms", "MS"}

\* "'starts at' in line" / "'finishes at' in line": a case-sensitive substring test
Contains(line, phrase) == \E i \in DOMAIN line : line[i].t = phrase

\* line.startswith('[')
StartsWithBracket(line) == line # <<>> /\ line[1] = LB

RECURSIVE SkipWs(_, _)
\* \s* from position i: the first position at or after i that holds no whitespace
SkipWs(line, i) ==
    IF i <= Len(line) /\ IsWs(line[i]) THEN SkipWs(line, i + 1) ELSE i

\* "<phrase>\s*(\d+)\s*ms" anchored at position i: whether it matches, the
\* number, and the position of its "ms"
TimedAt(line, i, phrases) ==
    IF i > Len(line) \/ line[i].t \notin phrases
    THEN [ok |-> FALSE, val |-> 0, end |-> i]
    ELSE LET j == SkipWs(line, i + 1)
             k == SkipWs(line, j + 1)
             ok == /\ j <= Len(line) /\ line[j].t = "num"
                   /\ k <= Len(line) /\ line[k].t \in MsLexemes
         IN  [ok |-> ok, val |-> IF ok THEN line[j].n ELSE 0, end |-> k]

\* The least element of a non-empty set of positions
Least(S) == CHOOSE x \in S : \A y \in S : x <= y

\* A search for "<start phrase>\s*(\d+)\s*ms.*?<finish phrase>\s*(\d+)\s*ms":
\* the leftmost start that a finish follows, then (".*?") the nearest finish
\* after it
SearchWith(line, startSet, finishSet) ==
    LET fins == {j \in DOMAIN line : TimedAt(line, j, finishSet).ok}
        starts == {i \in DOMAIN line :
                      /\ TimedAt(line, i, startSet).ok
                      /\ \E j \in fins : j > TimedAt(line, i, startSet).end}
    IN  IF starts = {} THEN [ok |-> FALSE, s |-> 0, f |-> 0]
        ELSE LET st == TimedAt(line, Least(starts), startSet)
                 j == Least({x \in fins : x > st.end})
             IN  [ok |-> TRUE, s |-> st.val, f |-> TimedAt(line, j, finishSet).val]

\* START_FINISH_RE.search(line)
Search(line) == SearchWith(line, StartPhrases, FinishPhrases)

\* "if line.startswith('[') and 'starts at' in line and 'finishes at' in line:
\*      m = START_FINISH_RE.search(line); if m:"
IsMatched(line) ==
    /\ StartsWithBracket(line)
    /\ Contains(line, "starts at")
    /\ Contains(line, "finishes at")
    /\ Search(line).ok

RECURSIVE RStrip(_)
\* line.rstrip()
RStrip(line) ==
    IF line # <<>> /\ IsWs(line[Len(line)])
    THEN RStrip(SubSeq(line, 1, Len(line) - 1)) ELSE line

\* line.endswith(suffix)
EndsWith(line, suffix) ==
    /\ Len(line) >= Len(suffix)
    /\ SubSeq(line, Len(line) - Len(suffix) + 1, Len(line)) = suffix

\* line[:-k]. Where the rewrite slices, the last k characters of the line
\* are among ']', '.' and whitespace, each a lexeme of one character.
DropLast(line, k) == SubSeq(line, 1, Len(line) - k)

Max2(a, b) == IF a >= b THEN a ELSE b
Min2(a, b) == IF a <= b THEN a ELSE b

\* f", duration={dur} ms"
DurationSuffix(dur) == <<Tok(","), SP, Tok("duration="), Num(dur), SP, Tok("ms")>>

\* The rewrite of a matched line:
\*   if line.rstrip().endswith('].'): line = line[:-2] + f", duration={dur} ms]."
\*   elif line.rstrip().endswith(']'): line = line[:-1] + f", duration={dur} ms]"
\*   else: line = line + f" (duration={dur} ms)"
RewriteLine(line, dur) ==
    IF EndsWith(RStrip(line), <<RB, DOT>>)
    THEN DropLast(line, 2) \o DurationSuffix(dur) \o <<RB, DOT>>
    ELSE IF EndsWith(RStrip(line), <<RB>>)
    THEN DropLast(line, 1) \o DurationSuffix(dur) \o <<RB>>
    ELSE line \o <<SP, Tok("("), Tok("duration="), Num(dur), SP, Tok("ms"), Tok(")")>>

\* "dur = max(0, f-s)"
Duration(s, f) == Max2(0, f - s)

\* An earliest that keeps the larger start.
EarliestAsMax(earliest, s) == IF earliest = <<>> THEN <<s>> ELSE <<Max2(earliest[1], s)>>

\* "earliest = s if earliest is None else min(earliest, s)"; None is <<>>
Earliest(earliest, s) == IF earliest = <<>> THEN <<s>> ELSE <<Min2(earliest[1], s)>>

\* "latest = f if latest is None else max(latest, f)"
Latest(latest, f) == IF latest = <<>> THEN <<f>> ELSE <<Max2(latest[1], f)>>

\* The body of the loop for a matched line, m being the match and dur its
\* duration: the duration is collected, the line rewritten, earliest and
\* latest updated.
ScanMatched(acc, line, m, dur) ==
    [durations |-> Append(acc.durations, dur),
     matched |-> Append(acc.matched, <<m.s, m.f>>),
     ann_lines |-> Append(acc.ann_lines, RewriteLine(line, dur)),
     earliest |-> Earliest(acc.earliest, m.s),
     latest |-> Latest(acc.latest, m.f)]

\* The body of the loop for one line; "ann_lines.append(line)" in every case
ScanLine(acc, line, m) ==
    IF IsMatched(line)
    THEN ScanMatched(acc, line, m, Duration(m.s, m.f))
    ELSE [acc EXCEPT !.ann_lines = Append(@, line)]

RECURSIVE Scan(_, _, _)
\* The loop over the lines: durations, the matched (start, finish) pairs,
\* the rewritten lines, earliest and latest.
Scan(lines, i, acc) ==
    IF i > Len(lines) THEN acc
    ELSE Scan(lines, i + 1, ScanLine(acc, lines[i], Search(lines[i])))

RECURSIVE Sum(_)
Sum(q) == IF q = <<>> THEN 0 ELSE Head(q) + Sum(Tail(q))

RECURSIVE MaxOf(_)
\* max(durations), for a non-empty list
MaxOf(q) == IF Len(q) = 1 THEN q[1] ELSE Max2(Head(q), MaxOf(Tail(q)))

RECURSIVE InsertSorted(_, _)
InsertSorted(sorted, x) ==
    IF sorted = <<>> THEN <<x>>
    ELSE IF Head(sorted) <= x THEN <<Head(sorted)>> \o InsertSorted(Tail(sorted), x)
         ELSE <<x>> \o sorted

RECURSIVE Sorted(_)
\* sorted(durations)
Sorted(q) == IF q = <<>> THEN <<>> ELSE InsertSorted(Sorted(Tail(q)), Head(q))

\* math.ceil(0.95 * n); the float product rounds to the exact value of
\* 95n/100 for every n below 200,000
Ceil95(n) == (95 * n + 99) \div 100

\* total, trace_evol.py: "max(0, (latest - earliest)) if (earliest and latest
\* and latest>=earliest) else sum(durations)": None and 0 are both falsy
TotalEvol(durations, earliest, latest) ==
    IF /\ earliest # <<>> /\ earliest # <<0>>
       /\ latest # <<>> /\ latest # <<0>>
       /\ latest[1] >= earliest[1]
    THEN Max2(0, latest[1] - earliest[1]) ELSE Sum(durations)

\* total, build_balanced_testset.py: "... if (earliest is not None and latest
\* is not None and latest >= earliest) else sum(durations)"
TotalBalanced(durations, earliest, latest) ==
    IF earliest # <<>> /\ latest # <<>> /\ latest[1] >= earliest[1]
    THEN Max2(0, latest[1] - earliest[1]) ELSE Sum(durations)

\* "mx = max(durations) if durations else 0"
MaxEdge(durations) == IF durations # <<>> THEN MaxOf(durations) ELSE 0

\* "avg = int(sum(durations)/len(durations)) if durations else 0": the float
\* quotient, truncated; exact integer division for sums below 2^53
MeanEdge(durations) == IF durations # <<>> THEN Sum(durations) \div Len(durations) ELSE 0

\* A percentile that truncates the rank instead of rounding it up.
P95Floor(durations) ==
    LET vs == Sorted(durations)
        idx == Max2(0, Min2(Len(vs) - 1, (95 * Len(vs)) \div 100))
    IN  IF vs # <<>> THEN vs[idx + 1] ELSE 0

\* "idx = max(0, min(len(vs)-1, math.ceil(0.95 * len(vs)) - 1)) if vs else 0
\*  p95 = int(vs[idx]) if vs else 0"   (vs is indexed from 0)
P95(durations) ==
    LET vs == Sorted(durations)
        idx == Max2(0, Min2(Len(vs) - 1, Ceil95(Len(vs)) - 1))
    IN  IF vs # <<>> THEN vs[idx + 1] ELSE 0

\* "max_ratio = (mx/total) if total>0 else 0.0", kept as the fraction num/den
MaxRatio(mx, total) ==
    IF total > 0 THEN [num |-> mx, den |-> total] ELSE [num |-> 0, den |-> 1]

\* "b_idx = durations.index(mx) if durations else -1"
BottleneckIndex(durations, mx) ==
    IF durations # <<>>
    THEN (CHOOSE i \in DOMAIN durations :
             durations[i] = mx /\ \A j \in 1..(i - 1) : durations[j] # mx) - 1
    ELSE -1

\* f"{max_ratio:.4f}": the ratio in ten-thousandths, rounded to nearest
Fmt4(r) == (2 * 10000 * r.num + r.den) \div (2 * r.den)

\* The statistics header, one line per "\n"
Header(st) ==
    << <<Tok("# stats title")>>,
       <<Tok("num_edges="), Num(st.num_edges)>>,
       <<Tok("total_latency_ms="), Num(st.total_latency_ms)>>,
       <<Tok("max_edge_latency_ms="), Num(st.max_edge)>>,
       <<Tok("mean_edge_latency_ms="), Num(st.mean_edge)>>,
       <<Tok("p95_edge_latency_ms="), Num(st.p95)>>,
       <<Tok("max_edge_ratio="), Num(Fmt4(st.max_edge_ratio))>>,
       <<Tok("bottleneck_index="), Num(st.bottleneck_index)>> >>

\* A cooked text whose header does not end with a line break: its last line
\* runs into the first line of the trace.
CookedGlued(header, ann_lines) ==
    IF ann_lines = <<>> THEN header
    ELSE SubSeq(header, 1, Len(header) - 1)
         \o <<header[Len(header)] \o ann_lines[1]>> \o Tail(ann_lines)

\* The lines of header + "\n" + "\n".join(ann_lines), as splitlines() gives
\* them back: the header, an empty line, the rewritten lines; splitlines()
\* reports no empty line after a final line break.
Cooked(header, ann_lines) ==
    LET all == header \o << <<>> >> \o ann_lines
    IN  IF all[Len(all)] = <<>> THEN SubSeq(all, 1, Len(all) - 1) ELSE all

\* The lines the loop visits: trace_evol.py takes txt.splitlines();
\* build_balanced_testset.py keeps "[l for l in txt.splitlines() if l.strip()]"
LinesOf(which, text) ==
    IF which = "balanced"
    THEN SelectSeq(text, LAMBDA l : \E i \in DOMAIN l : ~IsWs(l[i]))
    ELSE text

\* The seven features, from the durations and the total
Features(durations, total, mx) ==
    [num_edges |-> Len(durations),
     total_latency_ms |-> total,
     max_edge |-> mx,
     mean_edge |-> MeanEdge(durations),
     p95 |-> P95(durations),
     max_edge_ratio |-> MaxRatio(mx, total),
     bottleneck_index |-> BottleneckIndex(durations, mx)]

\* total_latency_ms of either implementation
Total(which, durations, earliest, latest) ==
    IF which = "balanced"
    THEN TotalBalanced(durations, earliest, latest)
    ELSE TotalEvol(durations, earliest, latest)

\* What parse_trace_and_stats computed: the lines it visited, what the loop
\* collected, the features, and the lines of the cooked text.
Result(lines, sc, st) ==
    [lines |-> lines,
     durations |-> sc.durations,
     matched |-> sc.matched,
     ann_lines |-> sc.ann_lines,
     stats |-> st,
     cooked |-> Cooked(Header(st), sc.ann_lines)]

\* The part of parse_trace_and_stats after the loop
AfterScan(which, lines, sc) ==
    Result(lines, sc,
           Features(sc.durations,
                    Total(which, sc.durations, sc.earliest, sc.latest),
                    MaxEdge(sc.durations)))

\* The loop of parse_trace_and_stats over the given lines
ScanAll(lines) ==
    Scan(lines, 1, [durations |-> <<>>, matched |-> <<>>, ann_lines |-> <<>>,
                    earliest |-> <<>>, latest |-> <<>>])

\* parse_trace_and_stats of trace_evol.py (which = "evol") and of
\* build_balanced_testset.py (which = "balanced")
ParseTraceAndStats(which, text) ==
    AfterScan(which, LinesOf(which, text), ScanAll(LinesOf(which, text)))

\* ---------------------------------------------- annotator: the inputs

\* An edge record of the textual protocol, with the variations the annotator
\* tells apart: the opening, the letter case of the two phrases, the
\* timestamps, the closing punctuation and trailing whitespace.
EdgeLine(open, startPhrase, finishPhrase, s, f, closing, trail) ==
    open \o <<Tok("Edge ID is e1, Communication"),
              SP, Tok(startPhrase), SP, Num(s), SP, Tok("ms"), Tok(","), SP,
              Tok("Communication"), SP, Tok(finishPhrase), SP, Num(f), SP, Tok("ms")>>
         \o closing \o trail

\* (start, finish) pairs: an earliest start of 0, nested edges, and edges
\* that finish before they start
Timings == {<<0, 3>>, <<1, 2>>, <<2, 1>>, <<4, 3>>}
Closings == {<<RB, DOT>>, <<RB>>, <<>>}
Trails == {<<SP>>, <<SP, TAB>>}

LineSet ==
    {EdgeLine(<<LB>>, "starts at", "finishes at", t[1], t[2], c, <<>>) :
        t \in Timings, c \in Closings}
    \cup {EdgeLine(<<LB>>, "starts at", "finishes at", 1, 2, c, w) :
        c \in Closings, w \in Trails}
    \cup {EdgeLine(<<LB>>, "Starts At", "finishes at", 1, 2, <<RB, DOT>>, <<>>),
          EdgeLine(<<LB>>, "starts at", "FINISHES AT", 1, 2, <<RB, DOT>>, <<>>),
          EdgeLine(<<LB>>, "starts  at", "finishes at", 1, 2, <<RB, DOT>>, <<>>),
          EdgeLine(<<>>, "starts at", "finishes at", 1, 2, <<RB, DOT>>, <<>>),
          EdgeLine(<<SP, LB>>, "starts at", "finishes at", 1, 2, <<RB, DOT>>, <<>>),
          <<LB, Tok("finishes at"), SP, Num(2), SP, Tok("ms"), Tok(","), SP,
            Tok("starts at"), SP, Num(1), SP, Tok("ms"), RB, DOT>>,
          <<>>,
          <<SP>>,
          <<Tok("Trace ID is t1")>>}

\* Longest text (in lines) of SpecParse.
MaxLines == 2
\* Longest text (in edges) of SpecStats.
MaxEdges == 40

\* Duration of the i-th of n edges under a pattern
PatternDuration(pat, k, n, i) ==
    CASE pat = "asc" -> i
      [] pat = "desc" -> n - i
      [] pat = "flat" -> 5
      [] pat = "mod" -> (7 * i) % 5
      [] OTHER -> IF i = k THEN 9 ELSE 1

\* A well-formed trace of n edges, the i-th starting at i
PatternText(pat, k, n) ==
    [i \in 1..n |-> EdgeLine(<<LB>>, "starts at", "finishes at",
                             i, i + PatternDuration(pat, k, n, i), <<RB, DOT>>, <<>>)]

StatTexts ==
    {PatternText(pat, 0, n) : pat \in {"asc", "desc", "flat", "mod"}, n \in 0..MaxEdges}
    \cup UNION {{PatternText("spike", k, n) : k \in 1..n} : n \in 1..MaxEdges}

InitParse ==
    /\ pc = "text"
    /\ \E n \in 0..MaxLines : txt \in [1..n -> LineSet]
    /\ impl = "none" /\ res = <<>> /\ res2 = <<>>
    /\ InitIdleGraph /\ InitIdleBatch

InitStats ==
    /\ pc = "text"
    /\ txt \in StatTexts
    /\ impl = "none" /\ res = <<>> /\ res2 = <<>>
    /\ InitIdleGraph /\ InitIdleBatch

\* trace_evol.py: st = parse_trace_and_stats(sample_txt)
ParseEvol ==
    /\ pc = "text"
    /\ impl' = "evol"
    /\ res' = ParseTraceAndStats("evol", txt)
    /\ pc' = "parsed"
    /\ UNCHANGED <<txt, res2, graphVars, batchVars>>

\* build_balanced_testset.py: cooked_content = parse_trace_and_stats(raw)
ParseBalanced ==
    /\ pc = "text"
    /\ impl' = "balanced"
    /\ res' = ParseTraceAndStats("balanced", txt)
    /\ pc' = "parsed"
    /\ UNCHANGED <<txt, res2, graphVars, batchVars>>

\* The same parse_trace_and_stats applied to the annotated text it produced
Reparse ==
    /\ pc = "parsed"
    /\ res2' = ParseTraceAndStats(impl, res.cooked)
    /\ pc' = "reparsed"
    /\ UNCHANGED <<txt, impl, res, graphVars, batchVars>>

NextParse == ParseEvol \/ ParseBalanced \/ Reparse

SpecParse == InitParse /\ [][NextParse]_vars

SpecStats == InitStats /\ [][NextParse]_vars

\* ---------------------------------------------- annotator: the claims

Parsed == pc \in {"parsed", "reparsed"}

\* The smallest start and the largest finish among the matched lines
MinStart(m) == CHOOSE x \in {m[i][1] : i \in DOMAIN m} : \A i \in DOMAIN m : x <= m[i][1]
MaxFinish(m) == CHOOSE x \in {m[i][2] : i \in DOMAIN m} : \A i \in DOMAIN m : x >= m[i][2]

\* C1: in both implementations, when at least one line is matched,
\* total_latency_ms = max(0, latest finish - earliest start), also for an
\* earliest start of 0; with no matched line it is 0.
C1_TotalIsWallClockSpan ==
    Parsed =>
        res.stats.total_latency_ms =
            IF res.matched # <<>>
            THEN Max2(0, MaxFinish(res.matched) - MinStart(res.matched))
            ELSE 0

\* The phrases "starts at" and "finishes at" in any letter case
AnyCaseStart == {"starts at", "Starts At"}
AnyCaseFinish == {"finishes at", "FINISHES AT"}

\* The line begins with '[' and holds "starts at <N> ms" and then
\* "finishes at <M> ms", in any letter case
IsEdgeInAnyCase(line) ==
    StartsWithBracket(line) /\ SearchWith(line, AnyCaseStart, AnyCaseFinish).ok

\* The line carries a duration annotation after its original content
HasDurationAfter(line, orig, dur) ==
    \E i \in DOMAIN line :
        /\ i < Len(line) /\ i >= Len(RStrip(orig)) - 1
        /\ line[i] = Tok("duration=") /\ line[i + 1] = Num(dur)

\* C5: every line that begins with '[' and holds the two phrases in any
\* letter case is a matched edge (its duration max(0, M - N) is collected,
\* num_edges counts it, the line is rewritten with the duration); every
\* other line passes through unmodified and is not counted.
C5_AnyCaseLinesAreEdges ==
    Parsed =>
        LET edgeLines == SelectSeq(res.lines, IsEdgeInAnyCase)
        IN  /\ res.stats.num_edges = Len(edgeLines)
            /\ res.durations =
                 [i \in DOMAIN edgeLines |->
                    LET m == SearchWith(edgeLines[i], AnyCaseStart, AnyCaseFinish)
                    IN  Max2(0, m.f - m.s)]
            /\ \A i \in DOMAIN res.lines :
                 IF IsEdgeInAnyCase(res.lines[i])
                 THEN LET m == SearchWith(res.lines[i], AnyCaseStart, AnyCaseFinish)
                      IN  HasDurationAfter(res.ann_lines[i], res.lines[i], Max2(0, m.f - m.s))
                 ELSE res.ann_lines[i] = res.lines[i]

\* The rewrite of a matched line as the specification words it: the
\* annotation goes before the final "]." or "]" of the line without its
\* trailing whitespace, or after the whole line.
RewriteAsSpecified(line, dur) ==
    LET core == RStrip(line)
    IN  IF EndsWith(core, <<RB, DOT>>)
        THEN SubSeq(core, 1, Len(core) - 2) \o DurationSuffix(dur) \o <<RB, DOT>>
        ELSE IF EndsWith(core, <<RB>>)
        THEN SubSeq(core, 1, Len(core) - 1) \o DurationSuffix(dur) \o <<RB>>
        ELSE line \o <<SP, Tok("("), Tok("duration="), Num(dur), SP, Tok("ms"), Tok(")")>>

\* C9: the rewrite of a matched line only inserts the duration annotation:
\* before the final "]." or "]" (trailing whitespace ignored), else after
\* the whole line; also for lines with trailing spaces or tabs.
C9_RewriteOnlyInserts ==
    Parsed =>
        \A i \in DOMAIN res.lines :
            IsMatched(res.lines[i]) =>
                LET m == Search(res.lines[i])
                IN  res.ann_lines[i] = RewriteAsSpecified(res.lines[i], Max2(0, m.f - m.s))

\* ceil(0.95 * n): the least k with 100 k >= 95 n
Rank95(n) == CHOOSE k \in 0..n : 100 * k >= 95 * n /\ \A j \in 0..(k - 1) : 100 * j < 95 * n

\* C7: p95_edge_latency_ms is the nearest-rank 95th percentile of the
\* durations: the value v of the list with at least ceil(0.95 n) durations
\* <= v and fewer than ceil(0.95 n) durations < v; 0 for an empty list.
C7_P95IsNearestRank ==
    Parsed =>
        LET d == res.durations
            n == Len(d)
            v == res.stats.p95
        IN  IF n = 0 THEN v = 0
            ELSE /\ v \in Range(d)
                 /\ Cardinality({i \in DOMAIN d : d[i] <= v}) >= Rank95(n)
                 /\ Cardinality({i \in DOMAIN d : d[i] < v}) < Rank95(n)

\* C7 witness: twenty edges or more, where the percentile is below the maximum
C7_Witness ==
    /\ pc = "parsed"
    /\ res.stats.num_edges >= 20
    /\ res.stats.p95 < res.stats.max_edge

\* C8: applying parse_trace_and_stats to the annotated text it produced
\* re-matches the same start/finish values and yields the same features; the
\* header lines are never matched as edges.
C8_ReparseSameFeatures ==
    pc = "reparsed" =>
        /\ res2.matched = res.matched
        /\ res2.durations = res.durations
        /\ res2.stats = res.stats
        /\ \A i \in DOMAIN res2.lines :
              IsMatched(res2.lines[i]) => res2.lines[i] \notin Range(Header(res.stats))

\* C8 witness: two edges were matched, one of them with trailing whitespace,
\* and the text was annotated twice
C8_Witness ==
    /\ pc = "reparsed"
    /\ Len(res.matched) = 2
    /\ \E i \in DOMAIN res.lines :
          IsMatched(res.lines[i]) /\ RStrip(res.lines[i]) # res.lines[i]
    /\ res2.ann_lines # res.ann_lines

\* C10 (as stated): max <= total, max_edge_ratio in [0, 1] and 0 exactly
\* when total_latency_ms is 0, mean <= max and p95 <= max.
C10_RatioZeroIffTotalZero ==
    Parsed =>
        LET st == res.stats
        IN  /\ st.max_edge <= st.total_latency_ms
            /\ 0 <= st.max_edge_ratio.num /\ st.max_edge_ratio.num <= st.max_edge_ratio.den
            /\ (st.max_edge_ratio.num = 0) <=> (st.total_latency_ms = 0)
            /\ st.mean_edge <= st.max_edge
            /\ st.p95 <= st.max_edge

\* C10 (amended): max <= total, max_edge_ratio in [0, 1], 0 whenever
\* total_latency_ms is 0 and exactly when max_edge_latency_ms is 0,
\* mean <= max and p95 <= max.
C10_EdgeStatsBounded ==
    Parsed =>
        LET st == res.stats
        IN  /\ st.max_edge <= st.total_latency_ms
            /\ 0 <= st.max_edge_ratio.num /\ st.max_edge_ratio.num <= st.max_edge_ratio.den
            /\ st.max_edge_ratio.den > 0
            /\ (st.max_edge_ratio.num = 0) <=> (st.max_edge = 0)
            /\ (st.total_latency_ms = 0) => (st.max_edge_ratio.num = 0)
            /\ st.mean_edge <= st.max_edge
            /\ st.p95 <= st.max_edge

\* C10 witness: two edges that finish before they start span a positive
\* wall-clock time, with a maximum duration of 0
C10_Witness ==
    /\ pc = "parsed"
    /\ res.stats.num_edges = 2
    /\ res.stats.total_latency_ms > 0
    /\ res.stats.max_edge = 0

\* ========================================================= batch drivers
\* batch[i] = TRUE: processing the i-th item raises (a trace whose root_span
\* is None makes extract_spans raise AttributeError; an unreadable file makes
\* open() raise OSError).

\* Longest batch.
MaxBatch == 4
\* trace_evol.py: MAX_PER_CLASS
MAX_PER_CLASS == 500
\* build_balanced_testset.py: SAMPLES_PER_CLASS
SAMPLES_PER_CLASS == 500

Drivers == {"transform4", "trace_evol", "build_balanced"}

InitBatch ==
    /\ pc = "loop"
    /\ driver \in Drivers
    /\ \E n \in 0..MaxBatch : batch \in [1..n -> BOOLEAN]
    /\ cursor = 1
    /\ recs = {} /\ emitted = {} /\ partial = {}
    /\ InitIdleGraph /\ InitIdleParse

\* transform4.main, one iteration of "for trace in traces": the output file
\* is opened and its first lines written, then extract_spans,
\* build_dependency_graph and generate_sequence run with no try statement
\* around them: an exception closes the file and leaves main.
Transform4Trace ==
    /\ pc = "loop" /\ driver = "transform4"
    /\ cursor <= Len(batch)
    /\ IF batch[cursor]
       THEN /\ partial' = partial \cup {cursor}
            /\ pc' = "aborted"
            /\ UNCHANGED <<cursor, emitted>>
       ELSE /\ emitted' = emitted \cup {cursor}
            /\ cursor' = cursor + 1
            /\ UNCHANGED <<pc, partial>>
    /\ UNCHANGED <<driver, batch, recs, graphVars, parseVars>>

\* transform4.main: the loop is over, main returns
Transform4Return ==
    /\ pc = "loop" /\ driver = "transform4"
    /\ cursor > Len(batch)
    /\ pc' = "done"
    /\ UNCHANGED <<batchVars, graphVars, parseVars>>

\* trace_evol.main, one iteration of "for p in iter_txt_files(dirs)":
\* "try: txt = open(p).read().strip(); recs.append(build_sharegpt(txt, label));
\*  c += 1  except Exception as e: print(...)"
EvolFile ==
    /\ pc = "loop" /\ driver = "trace_evol"
    /\ cursor <= Len(batch)
    /\ Cardinality(recs) < MAX_PER_CLASS
    /\ recs' = IF batch[cursor] THEN recs ELSE recs \cup {cursor}
    /\ cursor' = cursor + 1
    /\ UNCHANGED <<pc, driver, batch, emitted, partial, graphVars, parseVars>>

\* trace_evol.main after the loop (or its "if c >= MAX_PER_CLASS: break"):
\* random.shuffle(recs), then every record is written to OUT_JSON and OUT_JSONL
EvolWrite ==
    /\ pc = "loop" /\ driver = "trace_evol"
    /\ IF cursor <= Len(batch) THEN Cardinality(recs) >= MAX_PER_CLASS ELSE TRUE
    /\ emitted' = recs
    /\ pc' = "done"
    /\ UNCHANGED <<driver, batch, cursor, recs, partial, graphVars, parseVars>>

\* build_balanced_testset.main, one iteration of "for fp in selected_files"
\* (all the files: random.sample applies only above SAMPLES_PER_CLASS files):
\* "try: ... all_samples.append(sample)  except Exception as e: print(...)"
BalancedFile ==
    /\ pc = "loop" /\ driver = "build_balanced"
    /\ Len(batch) <= SAMPLES_PER_CLASS
    /\ cursor <= Len(batch)
    /\ recs' = IF batch[cursor] THEN recs ELSE recs \cup {cursor}
    /\ cursor' = cursor + 1
    /\ UNCHANGED <<pc, driver, batch, emitted, partial, graphVars, parseVars>>

\* build_balanced_testset.main after the loop: random.shuffle(all_samples),
\* then every sample is written to OUTPUT_FILE
BalancedWrite ==
    /\ pc = "loop" /\ driver = "build_balanced"
    /\ cursor > Len(batch)
    /\ emitted' = recs
    /\ pc' = "done"
    /\ UNCHANGED <<driver, batch, cursor, recs, partial, graphVars, parseVars>>

NextBatch ==
    \/ Transform4Trace \/ Transform4Return
    \/ EvolFile \/ EvolWrite
    \/ BalancedFile \/ BalancedWrite

SpecBatch == InitBatch /\ [][NextBatch]_vars

\* C6: in every batch driver a failure while processing one item aborts only
\* that item: once the driver has ended, the output of every other item of
\* the batch, before and after the failing one, has been emitted.
C6_FailureAbortsOnlyItsItem ==
    pc \in {"done", "aborted"} =>
        \A i \in DOMAIN batch : ~batch[i] => i \in emitted

=============================================================================
